---- MODULE Spec2Model ----
(***************************************************************************)
(* A model of scikits/cuda/fft.py: the CUFFT plan class (Plan), the        *)
(* executor (_fft) and its two entry points (fft, ifft).                   *)
(*                                                                         *)
(* The transform engine (module cufft) and the device-array layer          *)
(* (pycuda.gpuarray) are collaborators.  The engine is modelled by the     *)
(* handles it has issued, the number of destruction calls it has received  *)
(* for each of them and the contents of device memory; a device array is a *)
(* descriptor holding a device pointer, an element count and a dtype.      *)
(***************************************************************************)
EXTENDS Integers, Sequences, FiniteSets

VARIABLES plans,        \* the Plan objects, by identity
          allocated,    \* handles the engine has issued
          destroyCalls, \* per handle, the cufftDestroy calls received
          bufs,         \* the GPUArray descriptors, by identity
          mem,          \* device memory contents, by device pointer
          last          \* what the most recent operation did

vars == <<plans, allocated, destroyCalls, bufs, mem, last>>

----------------------------------------------------------------------------
(* Bounds of the model *)

MaxPlans == 2
MaxRank == 4
NumBufs == 2
MaxExplicitDel == 2

PlanIds == 1..MaxPlans
Handles == 1..MaxPlans
BufIds == 1..NumBufs
Ptrs == 1..(NumBufs + 1)

----------------------------------------------------------------------------
(* Values *)

Unset == "unset"
NoHandle == 0
\* An optional argument: None, or the value given.
None == <<>>
Some(v) == <<v>>

CUFFT_FORWARD == "CUFFT_FORWARD"
CUFFT_INVERSE == "CUFFT_INVERSE"

DTypes == {"float32", "float64", "complex64", "complex128", "int32"}

\* np.sctypes['complex'] and np.sctypes['float']
sctypes_complex == {"complex64", "complex128", "complex256"}
sctypes_float == {"float16", "float32", "float64", "float128"}

\* The shapes tried: a bare integer, and the tuples (2), (2,3), (2,3,4), ...
\* of every length from 0 to MaxRank.
ShapeArgs ==
    {[scalar |-> TRUE, val |-> <<2>>]} \cup
    {[scalar |-> FALSE, val |-> [i \in 1..n |-> i + 1]] : n \in 0..MaxRank}

isscalar(shape) == shape.scalar

----------------------------------------------------------------------------
(* Plan *)

NoPlan ==
    [state |-> "unborn", shape |-> <<>>, in_dtype |-> Unset, out_dtype |-> Unset,
     fft_type |-> Unset, fft_func |-> Unset, handle |-> NoHandle]

\* TransformType without its float64 -> complex128 branch.
TransformType_NoD2Z(in_dtype, out_dtype) ==
    IF in_dtype = "float32" /\ out_dtype = "complex64"
    THEN [fft_type |-> "CUFFT_R2C", fft_func |-> "cufftExecR2C"]
    ELSE IF in_dtype = "complex64" /\ out_dtype = "float32"
    THEN [fft_type |-> "CUFFT_C2R", fft_func |-> "cufftExecC2R"]
    ELSE IF in_dtype = "complex64" /\ out_dtype = "complex64"
    THEN [fft_type |-> "CUFFT_C2C", fft_func |-> "cufftExecC2C"]
    ELSE IF in_dtype = "complex128" /\ out_dtype = "float64"
    THEN [fft_type |-> "CUFFT_Z2D", fft_func |-> "cufftExecZ2D"]
    ELSE IF in_dtype = "complex128" /\ out_dtype = "complex128"
    THEN [fft_type |-> "CUFFT_Z2Z", fft_func |-> "cufftExecZ2Z"]
    ELSE [fft_type |-> Unset, fft_func |-> Unset]

\* The if/elif chain of Plan.__init__ that determines the type of the
\* transformation; Unset when no branch matches.
TransformType(in_dtype, out_dtype) ==
    IF in_dtype = "float32" /\ out_dtype = "complex64"
    THEN [fft_type |-> "CUFFT_R2C", fft_func |-> "cufftExecR2C"]
    ELSE IF in_dtype = "complex64" /\ out_dtype = "float32"
    THEN [fft_type |-> "CUFFT_C2R", fft_func |-> "cufftExecC2R"]
    ELSE IF in_dtype = "complex64" /\ out_dtype = "complex64"
    THEN [fft_type |-> "CUFFT_C2C", fft_func |-> "cufftExecC2C"]
    ELSE IF in_dtype = "float64" /\ out_dtype = "complex128"
    THEN [fft_type |-> "CUFFT_D2Z", fft_func |-> "cufftExecD2Z"]
    ELSE IF in_dtype = "complex128" /\ out_dtype = "float64"
    THEN [fft_type |-> "CUFFT_Z2D", fft_func |-> "cufftExecZ2D"]
    ELSE IF in_dtype = "complex128" /\ out_dtype = "complex128"
    THEN [fft_type |-> "CUFFT_Z2Z", fft_func |-> "cufftExecZ2Z"]
    ELSE [fft_type |-> Unset, fft_func |-> Unset]

\* The engine's rank-specific plan-creation call: the handle the engine
\* returns, or NoHandle when the engine rejects the creation.
cufftPlan(ok, fresh) == IF ok THEN fresh ELSE NoHandle

\* PlanCall with the last test written as "3 or more".
PlanCall_ThreeOrMore(shape) ==
    IF Len(shape) = 1 THEN "cufftPlan1d"
    ELSE IF Len(shape) = 2 THEN "cufftPlan2d"
    ELSE IF Len(shape) >= 3 THEN "cufftPlan3d"
    ELSE Unset

\* The set-up of the engine plan at the end of Plan.__init__: which creation
\* call is made for a shape, or Unset when the shape has no creation call.
PlanCall(shape) ==
    IF Len(shape) = 1 THEN "cufftPlan1d"
    ELSE IF Len(shape) = 2 THEN "cufftPlan2d"
    ELSE IF Len(shape) = 3 THEN "cufftPlan3d"
    ELSE Unset

\* Plan.__init__: the object as the constructor leaves it (attributes
\* assigned before a raise stay assigned), the error raised, and the engine
\* creation calls made.  ok and fresh are the engine's answer.
Plan__init__(shapeArg, in_dtype, out_dtype, ok, fresh) ==
    LET shape == IF isscalar(shapeArg) THEN <<shapeArg.val[1]>> ELSE shapeArg.val
        self0 == [NoPlan EXCEPT !.shape = shape, !.in_dtype = in_dtype,
                                !.out_dtype = out_dtype]
        t == TransformType(in_dtype, out_dtype)
        self1 == [self0 EXCEPT !.fft_type = t.fft_type, !.fft_func = t.fft_func]
        h == cufftPlan(ok, fresh)
    IN  IF t.fft_type = Unset
        THEN [self |-> self0, err |-> "UnsupportedTypeCombination", calls |-> <<>>]
        ELSE IF PlanCall(shape) = Unset
        THEN [self |-> self1, err |-> "UnsupportedRank", calls |-> <<>>]
        ELSE IF h = NoHandle
        THEN [self |-> self1, err |-> "PlanAllocationFailed",
              calls |-> <<PlanCall(shape)>>]
        ELSE [self |-> [self1 EXCEPT !.handle = h], err |-> "none",
              calls |-> <<PlanCall(shape)>>]

\* Plan.__del__: the handles passed to cufftDestroy.  Reading self.handle on
\* an object whose constructor raised before assigning it raises
\* AttributeError, and no engine call is made.
Plan__del__(self) ==
    IF self.handle = NoHandle THEN <<>> ELSE <<self.handle>>

----------------------------------------------------------------------------
(* Device arrays and device memory *)

BufSize(b) == 2 * b
BufDType(b) == IF b = 1 THEN "float32" ELSE "complex64"

HostData == [data |-> "host", div |-> 1]
FreeMem == [data |-> "free", div |-> 1]

Referenced(bs) == {bs[b].gpudata : b \in BufIds}

\* The descriptors the program starts with; g gives each its device pointer
\* (two descriptors with one pointer are views of the same memory).
Arrays(g) ==
    [b \in BufIds |-> [gpudata |-> g[b], size |-> BufSize(b), dtype |-> BufDType(b)]]

\* np.cast[dtype](scale): the element counts used here are small integers,
\* which every floating and complex dtype represents exactly; an integer
\* dtype keeps them as they are.
cast(dtype, scale) == [dtype |-> dtype, value |-> scale[1]]

\* An engine execution primitive writes the transform of the input memory
\* into the output memory.
EngineExec(m, calls) ==
    [q \in Ptrs |->
        IF \E i \in 1..Len(calls) : calls[i].odata = q
        THEN [data |-> "fft", div |-> 1] ELSE m[q]]

\* y_gpu / divisor: GPUArray division returns a new array, allocated while
\* y_gpu still holds its own memory, whose elements are those of y_gpu divided.
Divide(m, y_gpudata, divisor, fresh) ==
    [m EXCEPT ![fresh] = [data |-> m[y_gpudata].data,
                          div |-> m[y_gpudata].div * divisor.value]]

\* Memory that no descriptor refers to any more is returned to the device.
Release(m, bs) ==
    [q \in Ptrs |-> IF q \in Referenced(bs) THEN m[q] ELSE FreeMem]

----------------------------------------------------------------------------
(* _fft, fft, ifft *)

ComplexToComplex == {"CUFFT_C2C", "CUFFT_Z2Z"}

\* Validate with the direction checks ahead of the in-place check.
Validate_DirectionFirst(x_gpudata, y_gpudata, plan, direction) ==
    IF /\ direction = CUFFT_FORWARD
       /\ plan.in_dtype \in sctypes_complex
       /\ plan.out_dtype \in sctypes_float
    THEN "IllegalDirectionForKind"
    ELSE IF /\ direction = CUFFT_INVERSE
            /\ plan.in_dtype \in sctypes_float
            /\ plan.out_dtype \in sctypes_complex
    THEN "IllegalDirectionForKind"
    ELSE IF x_gpudata = y_gpudata /\ plan.fft_type \notin ComplexToComplex
    THEN "IllegalInPlaceTransform"
    ELSE "none"

\* Validate without the check of the inverse direction.
Validate_NoInverseCheck(x_gpudata, y_gpudata, plan, direction) ==
    IF x_gpudata = y_gpudata /\ plan.fft_type \notin ComplexToComplex
    THEN "IllegalInPlaceTransform"
    ELSE IF /\ direction = CUFFT_FORWARD
            /\ plan.in_dtype \in sctypes_complex
            /\ plan.out_dtype \in sctypes_float
    THEN "IllegalDirectionForKind"
    ELSE "none"

\* The three checks at the head of _fft, in order; "none" when all pass.
Validate(x_gpudata, y_gpudata, plan, direction) ==
    IF x_gpudata = y_gpudata /\ plan.fft_type \notin ComplexToComplex
    THEN "IllegalInPlaceTransform"
    ELSE IF /\ direction = CUFFT_FORWARD
            /\ plan.in_dtype \in sctypes_complex
            /\ plan.out_dtype \in sctypes_float
    THEN "IllegalDirectionForKind"
    ELSE IF /\ direction = CUFFT_INVERSE
            /\ plan.in_dtype \in sctypes_float
            /\ plan.out_dtype \in sctypes_complex
    THEN "IllegalDirectionForKind"
    ELSE "none"

\* ExecCall with the two device pointers in the other order.
ExecCall_Swapped(x_gpudata, y_gpudata, plan, direction) ==
    IF plan.fft_type \in ComplexToComplex
    THEN [fn |-> plan.fft_func, handle |-> plan.handle, idata |-> y_gpudata,
          odata |-> x_gpudata, direction |-> direction]
    ELSE [fn |-> plan.fft_func, handle |-> plan.handle, idata |-> y_gpudata,
          odata |-> x_gpudata]

\* The call of plan.fft_func in _fft: the direction is an argument only for
\* the complex-to-complex types.
ExecCall(x_gpudata, y_gpudata, plan, direction) ==
    IF plan.fft_type \in ComplexToComplex
    THEN [fn |-> plan.fft_func, handle |-> plan.handle, idata |-> x_gpudata,
          odata |-> y_gpudata, direction |-> direction]
    ELSE [fn |-> plan.fft_func, handle |-> plan.handle, idata |-> x_gpudata,
          odata |-> y_gpudata]

\* The scaling test at the end of _fft.
Scales(scale) == scale # None

\* _fft with the engine call made ahead of the three checks.
_fft_ExecFirst(x_gpu, y_gpu, plan, direction, scale, fresh) ==
    LET err == Validate(x_gpu.gpudata, y_gpu.gpudata, plan, direction)
    IN  [err |-> err,
         calls |-> <<ExecCall(x_gpu.gpudata, y_gpu.gpudata, plan, direction)>>,
         scaled |-> err = "none" /\ Scales(scale),
         y_gpudata |-> IF err = "none" /\ Scales(scale) THEN fresh ELSE y_gpu.gpudata,
         direction |-> direction, scale |-> scale]

\* _fft(x_gpu, y_gpu, plan, direction, scale): the error raised, the engine
\* calls made, whether the scaling statement ran, and y_gpu.gpudata at the
\* end.  fresh is the device pointer a new allocation would get.
_fft(x_gpu, y_gpu, plan, direction, scale, fresh) ==
    LET err == Validate(x_gpu.gpudata, y_gpu.gpudata, plan, direction)
    IN  IF err # "none"
        THEN [err |-> err, calls |-> <<>>, scaled |-> FALSE,
              y_gpudata |-> y_gpu.gpudata, direction |-> direction, scale |-> scale]
        ELSE [err |-> "none",
              calls |-> <<ExecCall(x_gpu.gpudata, y_gpu.gpudata, plan, direction)>>,
              scaled |-> Scales(scale),
              y_gpudata |-> IF Scales(scale) THEN fresh ELSE y_gpu.gpudata,
              direction |-> direction, scale |-> scale]

\* fft(x_gpu, y_gpu, plan, scale)
fft(x_gpu, y_gpu, plan, scale, fresh) ==
    IF scale = TRUE
    THEN _fft(x_gpu, y_gpu, plan, CUFFT_FORWARD, Some(x_gpu.size), fresh)
    ELSE _fft(x_gpu, y_gpu, plan, CUFFT_FORWARD, None, fresh)

\* ifft scaling by the element count of the input array, as fft does.
ifft_InputSize(x_gpu, y_gpu, plan, scale, fresh) ==
    IF scale = TRUE
    THEN _fft(x_gpu, y_gpu, plan, CUFFT_INVERSE, Some(x_gpu.size), fresh)
    ELSE _fft(x_gpu, y_gpu, plan, CUFFT_INVERSE, None, fresh)

\* ifft(x_gpu, y_gpu, plan, scale)
ifft(x_gpu, y_gpu, plan, scale, fresh) ==
    IF scale = TRUE
    THEN _fft(x_gpu, y_gpu, plan, CUFFT_INVERSE, Some(y_gpu.size), fresh)
    ELSE _fft(x_gpu, y_gpu, plan, CUFFT_INVERSE, None, fresh)

----------------------------------------------------------------------------
(* Initial states *)

NoCalls == [h \in Handles |-> 0]

\* Nothing constructed yet; every descriptor has its own memory.
Init ==
    /\ plans = [p \in PlanIds |-> NoPlan]
    /\ allocated = {}
    /\ destroyCalls = NoCalls
    /\ bufs = Arrays([b \in BufIds |-> b])
    /\ mem = Release([q \in Ptrs |-> HostData], bufs)
    /\ last = [op |-> "init"]

\* The plans that Plan(n, in_dtype, out_dtype) returns for an integer n when
\* the engine answers with its first handle (the shape plays no part in
\* execution).
Constructed ==
    {r.self : r \in {rr \in {Plan__init__(s, i, o, TRUE, 1) :
                                s \in {t \in ShapeArgs : isscalar(t)},
                                i \in DTypes, o \in DTypes} :
                        rr.err = "none"}}

\* The ways the arrays can share memory, each named once: the first array
\* has pointer 1, and every other array either shares the pointer of an
\* earlier one or has the next unused pointer.
Sharings ==
    {g \in [BufIds -> 1..NumBufs] :
        \A b \in BufIds :
            g[b] \in {g[a] : a \in 1..(b - 1)} \cup
                     {Cardinality({g[a] : a \in 1..(b - 1)}) + 1}}

\* One plan constructed and held by the program; descriptors that may be
\* views of one another.
InitExec ==
    /\ \E c \in Constructed :
          plans = [p \in PlanIds |->
                      IF p = 1 THEN [c EXCEPT !.state = "live"] ELSE NoPlan]
    /\ allocated = {1}
    /\ destroyCalls = NoCalls
    /\ \E g \in Sharings : bufs = Arrays(g)
    /\ mem = Release([q \in Ptrs |-> HostData], bufs)
    /\ last = [op |-> "init"]

----------------------------------------------------------------------------
(* Operations on plans *)

FreshHandle == Cardinality(allocated) + 1

\* plan = Plan(shape, in_dtype, out_dtype).  An object whose constructor
\* raised is reachable by nothing but the interpreter's finalisation, which
\* reads its handle only.
Construct(p, shapeArg, in_dtype, out_dtype, ok) ==
    /\ plans[p].state = "unborn"
    /\ \A q \in PlanIds : q < p => plans[q].state # "unborn"
    /\ LET r == Plan__init__(shapeArg, in_dtype, out_dtype, ok, FreshHandle)
       IN  /\ plans' = [plans EXCEPT ![p] =
                  IF r.err = "none"
                  THEN [r.self EXCEPT !.state = "live"]
                  ELSE [NoPlan EXCEPT !.state = "failed", !.handle = r.self.handle]]
           /\ allocated' = IF r.self.handle # NoHandle
                           THEN allocated \cup {r.self.handle} ELSE allocated
           /\ last' = [op |-> "Plan", plan |-> p, shapeArg |-> shapeArg,
                       in_dtype |-> in_dtype, out_dtype |-> out_dtype,
                       err |-> r.err, calls |-> r.calls, self |-> r.self]
    /\ UNCHANGED <<destroyCalls, bufs, mem>>

\* The engine's count of destruction calls after the calls hs.
Destroyed(hs) ==
    [h \in Handles |-> destroyCalls[h] + Cardinality({i \in 1..Len(hs) : hs[i] = h})]

\* plan.__del__() called by the program on a plan it holds.
ExplicitDel(p) ==
    /\ plans[p].state = "live"
    /\ destroyCalls[plans[p].handle] < MaxExplicitDel
    /\ destroyCalls' = Destroyed(Plan__del__(plans[p]))
    /\ last' = [op |-> "__del__", plan |-> p, calls |-> Plan__del__(plans[p])]
    /\ UNCHANGED <<plans, allocated, bufs, mem>>

\* The last reference to the object goes away (for a plan whose constructor
\* raised, there never was one) and the interpreter runs __del__.
Collect(p) ==
    /\ plans[p].state \in {"live", "failed"}
    /\ destroyCalls' = Destroyed(Plan__del__(plans[p]))
    /\ plans' = [plans EXCEPT ![p] = [NoPlan EXCEPT !.state = "collected"]]
    /\ last' = [op |-> "collect", plan |-> p, calls |-> Plan__del__(plans[p]),
                failed |-> plans[p].state = "failed"]
    /\ UNCHANGED <<allocated, bufs, mem>>

----------------------------------------------------------------------------
(* Execution *)

\* The effect of one entry-point call with result r on the descriptors and
\* on device memory: the engine calls, then the scaling statement
\* y_gpu.gpudata = (y_gpu/np.cast[y_gpu.dtype](scale)).gpudata
Effect(op, p, x, y, normalize, r) ==
    LET m1 == EngineExec(mem, r.calls)
        m2 == IF r.scaled
              THEN Divide(m1, bufs[y].gpudata, cast(bufs[y].dtype, r.scale), r.y_gpudata)
              ELSE m1
    IN  /\ bufs' = [bufs EXCEPT ![y].gpudata = r.y_gpudata]
        /\ mem' = Release(m2, bufs')
        /\ last' = [op |-> op, plan |-> p, x |-> x, y |-> y, normalize |-> normalize,
                    err |-> r.err, calls |-> r.calls, scaled |-> r.scaled,
                    direction |-> r.direction, scale |-> r.scale,
                    x_gpudata |-> bufs[x].gpudata, y_gpudata |-> bufs[y].gpudata]
        /\ UNCHANGED <<plans, allocated, destroyCalls>>

\* fft(x_gpu, y_gpu, plan, scale) on a plan the program holds
Fft(p, x, y, normalize) ==
    /\ plans[p].state = "live"
    /\ \E fresh \in Ptrs \ Referenced(bufs) :
          Effect("fft", p, x, y, normalize,
                 fft(bufs[x], bufs[y], plans[p], normalize, fresh))

\* ifft(x_gpu, y_gpu, plan, scale) on a plan the program holds
Ifft(p, x, y, normalize) ==
    /\ plans[p].state = "live"
    /\ \E fresh \in Ptrs \ Referenced(bufs) :
          Effect("ifft", p, x, y, normalize,
                 ifft(bufs[x], bufs[y], plans[p], normalize, fresh))

----------------------------------------------------------------------------
(* Specifications *)

\* The life of plans: construction with every input, explicit and automatic
\* teardown, and unscaled transforms between the first and the last array.
Next ==
    \/ \E p \in PlanIds, s \in ShapeArgs, i \in DTypes, o \in DTypes, ok \in BOOLEAN :
          Construct(p, s, i, o, ok)
    \/ \E p \in PlanIds : ExplicitDel(p)
    \/ \E p \in PlanIds : Collect(p)
    \/ \E p \in PlanIds : Fft(p, 1, NumBufs, FALSE)
    \/ \E p \in PlanIds : Ifft(p, 1, NumBufs, FALSE)

Spec == Init /\ [][Next]_vars

\* Construction with every input, and the end of the objects' lives.
NextCreate ==
    \/ \E p \in PlanIds, s \in ShapeArgs, i \in DTypes, o \in DTypes, ok \in BOOLEAN :
          Construct(p, s, i, o, ok)
    \/ \E p \in PlanIds : Collect(p)

SpecCreate == Init /\ [][NextCreate]_vars

\* Execution: every entry point with every pair of arrays on a constructed plan.
NextExec ==
    \/ \E p \in PlanIds, x \in BufIds, y \in BufIds, n \in BOOLEAN : Fft(p, x, y, n)
    \/ \E p \in PlanIds, x \in BufIds, y \in BufIds, n \in BOOLEAN : Ifft(p, x, y, n)

SpecExec == InitExec /\ [][NextExec]_vars

----------------------------------------------------------------------------
(* Properties of plan construction *)

ExecOps == {"fft", "ifft"}

\* The dispatch table of the specification: the six supported pairs of
\* dtypes with the transform kind and the execution primitive of each.
DispatchTable ==
    {[in |-> "float32", out |-> "complex64", kind |-> "CUFFT_R2C", prim |-> "cufftExecR2C"],
     [in |-> "complex64", out |-> "float32", kind |-> "CUFFT_C2R", prim |-> "cufftExecC2R"],
     [in |-> "complex64", out |-> "complex64", kind |-> "CUFFT_C2C", prim |-> "cufftExecC2C"],
     [in |-> "float64", out |-> "complex128", kind |-> "CUFFT_D2Z", prim |-> "cufftExecD2Z"],
     [in |-> "complex128", out |-> "float64", kind |-> "CUFFT_Z2D", prim |-> "cufftExecZ2D"],
     [in |-> "complex128", out |-> "complex128", kind |-> "CUFFT_Z2Z", prim |-> "cufftExecZ2Z"]}

Supported(in_dtype, out_dtype) ==
    \E e \in DispatchTable : e.in = in_dtype /\ e.out = out_dtype

\* The most recent operation was Plan(shape, in, out) with a shape of
\* length 1, 2 or 3.
CreatedWithValidRank ==
    /\ last.op = "Plan"
    /\ Len(last.self.shape) \in {1, 2, 3}

\* The plan just created holds the kind and the primitive of its pair.
HoldsDispatch ==
    \E e \in DispatchTable :
        /\ e.in = last.in_dtype /\ e.out = last.out_dtype
        /\ plans[last.plan].fft_type = e.kind
        /\ plans[last.plan].fft_func = e.prim

\* The most recent construction made no engine call and left no handle.
NothingAllocated ==
    /\ last.calls = <<>>
    /\ last.self.handle = NoHandle
    /\ plans[last.plan].handle = NoHandle

\* C1 as stated: with a shape of length 1, 2 or 3, creation succeeds exactly
\* when the dtype pair is one of the six supported pairs, the plan created
\* then holds the kind and the primitive of the dispatch table, and for every
\* other pair creation fails with UnsupportedTypeCombination and allocates
\* no handle.
C1_AsStated ==
    CreatedWithValidRank =>
        /\ (last.err = "none") <=> Supported(last.in_dtype, last.out_dtype)
        /\ last.err = "none" => HoldsDispatch
        /\ ~Supported(last.in_dtype, last.out_dtype) =>
              last.err = "UnsupportedTypeCombination" /\ NothingAllocated

\* C1 amended: with a shape of length 1, 2 or 3, creation fails with
\* UnsupportedTypeCombination exactly when the dtype pair is not one of the six
\* supported pairs, and then allocates no handle; for a supported pair it
\* succeeds unless the engine rejects the creation call (the only other
\* outcome, PlanAllocationFailed, raised by that call), and a plan created
\* holds the kind and the primitive of the dispatch table and a handle the
\* engine issued.
C1_Dispatch ==
    CreatedWithValidRank =>
        /\ (last.err = "UnsupportedTypeCombination")
              <=> ~Supported(last.in_dtype, last.out_dtype)
        /\ Supported(last.in_dtype, last.out_dtype) =>
              /\ last.err \in {"none", "PlanAllocationFailed"}
              /\ Len(last.calls) = 1
        /\ last.err = "none" =>
              /\ HoldsDispatch
              /\ plans[last.plan].state = "live"
              /\ plans[last.plan].handle \in allocated
        /\ last.err # "none" => plans[last.plan].handle = NoHandle
        /\ ~Supported(last.in_dtype, last.out_dtype) => NothingAllocated

\* A complex128 -> float64 plan of rank 3 was created.
C1_Witness ==
    /\ CreatedWithValidRank
    /\ last.err = "none"
    /\ Len(last.self.shape) = 3
    /\ plans[last.plan].fft_type = "CUFFT_Z2D"

\* The most recent operation was Plan(shape, in, out) with a shape of
\* length 0 or of length 4 or more.
CreatedWithBadRank ==
    /\ last.op = "Plan"
    /\ Len(last.self.shape) \notin {1, 2, 3}

\* C7 as stated: with a shape of length 0 or >= 4, creation fails with
\* UnsupportedRank for every dtype pair, supported or not, and allocates no
\* handle.
C7_AsStated ==
    CreatedWithBadRank => last.err = "UnsupportedRank" /\ NothingAllocated

\* C7 amended: with a shape of length 0 or >= 4, creation fails and allocates
\* no handle for every dtype pair; the error is UnsupportedRank when the pair
\* is one of the six supported pairs and UnsupportedTypeCombination when it is
\* not (the dtype pair is checked before the rank).
C7_Rank ==
    CreatedWithBadRank =>
        /\ NothingAllocated
        /\ plans[last.plan].state = "failed"
        /\ last.err = IF Supported(last.in_dtype, last.out_dtype)
                      THEN "UnsupportedRank" ELSE "UnsupportedTypeCombination"

\* A shape of length 4 with a supported pair was refused with UnsupportedRank.
C7_Witness ==
    /\ CreatedWithBadRank
    /\ Len(last.self.shape) = 4
    /\ Supported(last.in_dtype, last.out_dtype)
    /\ last.err = "UnsupportedRank"

----------------------------------------------------------------------------
(* Properties of execution *)

RealComplexKinds == {"CUFFT_R2C", "CUFFT_C2R", "CUFFT_D2Z", "CUFFT_Z2D"}
ComplexToRealKinds == {"CUFFT_C2R", "CUFFT_Z2D"}
RealToComplexKinds == {"CUFFT_R2C", "CUFFT_D2Z"}

\* The most recent operation was an entry-point call.
Executed == last.op \in ExecOps

\* The kind of the plan the most recent call was given.
LastKind == plans[last.plan].fft_type

\* The most recent call was given arrays with one device pointer.
InPlace == last.x_gpudata = last.y_gpudata

\* The most recent call reached the engine: one execution primitive invoked.
ReachedEngine == last.err = "none" /\ Len(last.calls) = 1

\* The direction of the most recent call is one its kind does not allow.
IllegalDirection ==
    \/ last.direction = CUFFT_FORWARD /\ LastKind \in ComplexToRealKinds
    \/ last.direction = CUFFT_INVERSE /\ LastKind \in RealToComplexKinds

\* C2: a call whose input and output device pointers are equal reaches the
\* engine when the plan is complex-to-complex (C2C, Z2Z), in either
\* direction, and fails with IllegalInPlaceTransform when the plan is one of
\* the four real<->complex kinds, also when the direction is illegal for the
\* kind.
C2_InPlace ==
    (Executed /\ InPlace) =>
        /\ LastKind \in ComplexToComplex => ReachedEngine
        /\ LastKind \in RealComplexKinds =>
              last.err = "IllegalInPlaceTransform" /\ last.calls = <<>>
        /\ LastKind \in ComplexToComplex \cup RealComplexKinds

\* A forward in-place call on a complex-to-real plan, where the direction is
\* illegal too, was refused as an in-place transform.
C2_Witness ==
    /\ Executed /\ InPlace
    /\ last.x # last.y
    /\ IllegalDirection
    /\ last.err = "IllegalInPlaceTransform"

\* C3: a call whose input and output device pointers differ fails with
\* IllegalDirectionForKind exactly when it is forward on a C2R or Z2D plan or
\* inverse on an R2C or D2Z plan; every other call reaches the engine.
C3_Direction ==
    (Executed /\ ~InPlace) =>
        /\ (last.err = "IllegalDirectionForKind") <=> IllegalDirection
        /\ ~IllegalDirection => ReachedEngine
        /\ IllegalDirection => last.calls = <<>>

\* An inverse call on a float64 -> complex128 plan was refused.
C3_Witness ==
    /\ Executed /\ ~InPlace
    /\ last.direction = CUFFT_INVERSE
    /\ LastKind = "CUFFT_D2Z"
    /\ last.err = "IllegalDirectionForKind"

\* C5: a call that raises a validation error has made no engine call and has
\* not scaled: the descriptors, device memory, the plans and the engine's
\* handles are as they were before the call.
C5_ValidationFirst ==
    [][(last'.op \in ExecOps /\ last'.err # "none") =>
          /\ last'.calls = <<>>
          /\ ~last'.scaled
          /\ bufs' = bufs
          /\ mem' = mem
          /\ plans' = plans
          /\ allocated' = allocated
          /\ destroyCalls' = destroyCalls]_vars

\* A call asked to scale was refused for its direction, on memory the engine
\* had written before.
C5_Witness ==
    /\ Executed
    /\ last.normalize
    /\ last.err = "IllegalDirectionForKind"
    /\ mem[last.y_gpudata].data = "fft"

\* C6: fft calls _fft with the forward direction and, as scale, the element
\* count of the input array when asked to normalize and None otherwise; ifft
\* calls it with the inverse direction and the element count of the output
\* array, or None.  Without a scale there is no scaling pass: the output
\* descriptor keeps its device pointer.
C6_EntryPoints ==
    Executed =>
        /\ last.op = "fft" =>
              /\ last.direction = CUFFT_FORWARD
              /\ last.scale = IF last.normalize THEN Some(BufSize(last.x)) ELSE None
        /\ last.op = "ifft" =>
              /\ last.direction = CUFFT_INVERSE
              /\ last.scale = IF last.normalize THEN Some(BufSize(last.y)) ELSE None
        /\ last.scale = None =>
              ~last.scaled /\ bufs[last.y].gpudata = last.y_gpudata
        /\ (last.scale # None /\ last.err = "none") =>
              /\ last.scaled
              /\ mem[bufs[last.y].gpudata] = [data |-> "fft", div |-> last.scale[1]]

\* A normalized inverse transform between arrays of different element counts
\* ran and scaled.
C6_Witness ==
    /\ last.op = "ifft"
    /\ last.normalize
    /\ last.x # last.y
    /\ last.err = "none"
    /\ last.scaled
    /\ last.scale = Some(bufs[last.y].size)
    /\ bufs[last.x].size # bufs[last.y].size

\* C9: after a call given a scale factor the output descriptor still has the
\* device pointer it had before the call, the one passed to the engine, and
\* after an in-place call the input and output descriptors still share
\* their memory.
C9_InPlaceScaling ==
    (Executed /\ last.scaled) =>
        /\ bufs[last.y].gpudata = last.y_gpudata
        /\ bufs[last.y].gpudata = last.calls[1].odata
        /\ InPlace => bufs[last.x].gpudata = bufs[last.y].gpudata

\* The engine call of the most recent call is the one the claim C10 describes.
CallAsResolved ==
    LET c == last.calls[1]
        e == CHOOSE d \in DispatchTable : d.kind = LastKind
    IN  /\ Len(last.calls) = 1
        /\ c.fn = plans[last.plan].fft_func
        /\ c.fn = e.prim
        /\ c.handle = plans[last.plan].handle
        /\ c.idata = last.x_gpudata
        /\ c.odata = last.y_gpudata
        /\ ("direction" \in DOMAIN c) <=> (LastKind \in ComplexToComplex)
        /\ LastKind \in ComplexToComplex => c.direction = last.direction
        /\ DOMAIN c \subseteq {"fn", "handle", "idata", "odata", "direction"}

\* C10: a call that passes validation invokes exactly one engine primitive,
\* the one resolved for the plan at construction, with the plan's handle and
\* the input and output device pointers in that order, and with the
\* direction as a fourth argument exactly when the plan is C2C or Z2Z; the
\* call leaves the plan as it was.
C10_EngineCall ==
    [][(last'.op \in ExecOps /\ last'.err = "none") =>
          /\ CallAsResolved'
          /\ plans' = plans]_vars

\* An inverse complex128 -> complex128 call ran between different arrays.
C10_Witness ==
    /\ Executed
    /\ last.err = "none"
    /\ LastKind = "CUFFT_Z2Z"
    /\ last.direction = CUFFT_INVERSE
    /\ last.x_gpudata # last.y_gpudata
    /\ CallAsResolved

----------------------------------------------------------------------------
(* Properties of the plan's handle *)

\* C4: the engine's destruction call is never issued twice for one handle,
\* never for a handle the engine did not issue, and has been issued exactly
\* once for the handle of every plan whose life has ended.
C4_DestroyOnce ==
    \A h \in Handles :
        /\ destroyCalls[h] <= 1
        /\ destroyCalls[h] > 0 => h \in allocated
        /\ (h \in allocated /\ \A p \in PlanIds : plans[p].handle # h) =>
              destroyCalls[h] = 1

\* C8: no engine execution call is made with a handle that has been
\* destroyed.
C8_NoUseAfterDestroy ==
    Executed =>
        \A i \in 1..Len(last.calls) : destroyCalls[last.calls[i].handle] = 0

====
